---- MODULE Spec2Model ----
(***************************************************************************)
(* A model of indigo_specifics/resolve_device_config.py: the $import       *)
(* resolver (DeviceConfigResolver), the semantic comparison (JsonDiffer),  *)
(* the comment stripper (JsonCommentStripper) and the reconciliation of a  *)
(* freshly resolved document with the stored artifact (process_device).    *)
(*                                                                         *)
(* JSON values are tagged records [t, v]:                                  *)
(*   t = "num"  v an integer                                               *)
(*   t = "bool" v TRUE or FALSE (Python's bool, a subclass of int)         *)
(*   t = "str"  v a sequence of lexemes (one-character strings, or a name  *)
(*              standing for a run of letters)                             *)
(*   t = "seq"  v a sequence of values                                     *)
(*   t = "map"  v a sequence of <<key, value>> pairs in insertion order,   *)
(*              keys being lexeme sequences, no key twice (a Python dict)  *)
(*   t = "bad"  a file whose text json.loads rejects                       *)
(* A path is the sequence of its components from the root, the form        *)
(* pathlib keeps (".." is kept as written, "/" never is a component).      *)
(***************************************************************************)
EXTENDS Integers, Sequences, FiniteSets, TLC

VARIABLES
    fs,        \* the configuration tree: physical path -> parsed file content
    artifact,  \* the text of the output file (a token sequence), or NoFile
    now,       \* the wall clock datetime.now() reads
    run,       \* the last thing that happened to the artifact's inputs: a run of process_device or an edit
    call,      \* the arguments of the last resolver call made directly
    res,       \* what that call returned
    txt,       \* the text given to strip_comments
    stripped,  \* what strip_comments returned for it
    old_obj,   \* the first document given to JsonDiffer
    new_obj,   \* the second document given to JsonDiffer
    report     \* what json_objects_equal and generate_diff_report returned for them

vars == <<fs, artifact, now, run, call, res, txt, stripped, old_obj, new_obj, report>>

(***************************************************************************)
(* Bounds of the model.                                                    *)
(***************************************************************************)
\* the interpreter's recursion limit (sys.getrecursionlimit()), counted in
\* nested resolve_imports calls
RecursionLimit == 9
\* the clock stops here
MaxClock == 2
\* no run is started once the stored version reached this
MaxVers == 3
\* the longest text given to strip_comments
MaxLen == 6

(***************************************************************************)
(* JSON values and the dict operations the code uses on them.              *)
(***************************************************************************)
Bool(b) == [t |-> "bool", v |-> b]
Num(n) == [t |-> "num", v |-> n]
Str(s) == [t |-> "str", v |-> s]
List(s) == [t |-> "seq", v |-> s]
Map(ps) == [t |-> "map", v |-> ps]
BadJson == [t |-> "bad", v |-> 0]

IMPORT == <<"$import">>
VERS == <<"vers">>
LAST_UPDATE == <<"last_update">>

\* dict.keys()
Keys(m) == {m.v[i][1] : i \in 1..Len(m.v)}
\* k in dict
HasKey(m, k) == \E i \in 1..Len(m.v) : m.v[i][1] = k
\* dict[k]
Get(m, k) == m.v[CHOOSE i \in 1..Len(m.v) : m.v[i][1] = k][2]
\* dict[k] = val: an existing key keeps its place, a new key goes last
Put(m, k, val) ==
    IF HasKey(m, k)
    THEN Map([i \in 1..Len(m.v) |-> IF m.v[i][1] = k THEN <<k, val>> ELSE m.v[i]])
    ELSE Map(Append(m.v, <<k, val>>))
\* dict.get(k, default)
GetOr(m, k, default) == IF HasKey(m, k) THEN Get(m, k) ELSE default

(***************************************************************************)
(* Paths and the file system.                                              *)
(***************************************************************************)
base_dir == <<"devices">>
manufacturer_id == "m"
device_filename == "d"
DevicePath == <<"devices", "m", "d">>
TemplatePath == <<"devices", "m", "t">>
MasterPath == <<"devices", "g">>

NoPath == <<"ENOENT">>

\* Path.parent
Parent(p) == IF Len(p) = 0 THEN p ELSE SubSeq(p, 1, Len(p) - 1)
\* the components of a path string: the lexemes between its slashes
Components(s) == SelectSeq(s, LAMBDA c : c # "/")
\* Path / str: an absolute right-hand side replaces the left
JoinPath(dir, s) ==
    IF Len(s) > 0 /\ s[1] = "/" THEN Components(s) ELSE dir \o Components(s)

\* a directory exists when some file lies below it
IsDir(files, p) ==
    \E f \in DOMAIN files : Len(f) > Len(p) /\ SubSeq(f, 1, Len(p)) = p

\* The file the operating system opens for a path: ".." steps to the parent of
\* the directory reached so far, which must exist; NoPath when there is none.
RECURSIVE Walk(_, _, _, _)
Walk(files, p, i, cur) ==
    IF i > Len(p) THEN (IF cur \in DOMAIN files THEN cur ELSE NoPath)
    ELSE LET nxt == IF p[i] = ".." THEN Parent(cur) ELSE Append(cur, p[i])
         IN  IF i < Len(p) /\ ~IsDir(files, nxt) THEN NoPath
             ELSE Walk(files, p, i + 1, nxt)
Realpath(files, p) == Walk(files, p, 1, <<>>)

(***************************************************************************)
(* Results of the resolver's operations. A failed result carries the       *)
(* exception's type and, for ValueError, which raise it was.               *)
(***************************************************************************)
\* The state a resolution run threads through its calls: the template cache
\* and, as observations, the files read, the lookups made, the (file, key)
\* pairs whose value is being resolved by the calls now on the stack, and
\* whether a lookup named a pair that was being resolved already.
EmptySt == [cache |-> <<>>, reads |-> <<>>, lookups |-> <<>>, active |-> <<>>,
            revisited |-> FALSE]
Ok(val, st) == [ok |-> TRUE, val |-> val, err |-> "", st |-> st]
Fail(err, st) == [ok |-> FALSE, val |-> Num(0), err |-> err, st |-> st]

ImportSyntaxError == "ValueError: Import path must contain '#'"
MergeConflict == "ValueError: Cannot merge non-dict template value with other keys"
TemplateNotFound == "FileNotFoundError"
KeyNotFound == "KeyError"
ParseError == "JSONDecodeError"
TypeError == "TypeError"
AttributeError == "AttributeError"
RecursionError == "RecursionError"

\* the exceptions process_device catches
CaughtErrors == {ImportSyntaxError, MergeConflict, TemplateNotFound, KeyNotFound, ParseError}

(***************************************************************************)
(* DeviceConfigResolver.                                                   *)
(***************************************************************************)
\* str.split('#', 1): the place of the first '#'
FirstHash(s) == CHOOSE i \in 1..Len(s) : s[i] = "#" /\ \A j \in 1..(i - 1) : s[j] # "#"

\* resolve_import_path. import_path is the value found under "$import": for a
\* string, the test `'#' not in import_path` looks for the character; for a
\* list or a dict it looks for the element or key "#" and split() then fails;
\* for a number it raises TypeError.
resolve_import_path(import_path, current_file) ==
    LET none == [ok |-> FALSE, err |-> "", file |-> <<>>, key |-> <<>>, empty |-> FALSE]
    IN
    IF import_path.t = "str" THEN
        LET s == import_path.v IN
        IF \A i \in 1..Len(s) : s[i] # "#"
        THEN [none EXCEPT !.err = ImportSyntaxError]
        ELSE
            LET h == FirstHash(s)
                path_part == SubSeq(s, 1, h - 1)
                key_part == SubSeq(s, h + 1, Len(s))
                template_path ==
                    IF path_part = <<>> THEN current_file
                    ELSE IF Len(path_part) >= 2 /\ path_part[1] = "~" /\ path_part[2] = "/"
                    THEN JoinPath(base_dir, SubSeq(path_part, 3, Len(path_part)))
                    ELSE JoinPath(Parent(current_file), path_part)
            IN  [ok |-> TRUE, err |-> "", file |-> template_path, key |-> key_part,
                 empty |-> (path_part = <<>>)]
    ELSE IF import_path.t = "seq" THEN
        IF \E i \in 1..Len(import_path.v) : import_path.v[i] = Str(<<"#">>)
        THEN [none EXCEPT !.err = AttributeError]
        ELSE [none EXCEPT !.err = ImportSyntaxError]
    ELSE IF import_path.t = "map" THEN
        IF HasKey(import_path, <<"#">>)
        THEN [none EXCEPT !.err = AttributeError]
        ELSE [none EXCEPT !.err = ImportSyntaxError]
    ELSE [none EXCEPT !.err = TypeError]

\* load_json_file: open() finds the file the path leads to or raises
\* FileNotFoundError; the read is logged under the file opened. The file's
\* content is held as the value json.loads gives for its comment-stripped text.
load_json_file(files, file_path, st) ==
    IF Realpath(files, file_path) = NoPath THEN Fail(TemplateNotFound, st)
    ELSE IF files[Realpath(files, file_path)].t = "bad"
    THEN Fail(ParseError, [st EXCEPT !.reads = Append(@, Realpath(files, file_path))])
    ELSE Ok(files[Realpath(files, file_path)],
            [st EXCEPT !.reads = Append(@, Realpath(files, file_path))])

\* the key under which get_template_value caches a file: str(template_file)
CacheKey(template_file) == template_file

\* lines 198-203: the lookup in the cached file content
LookupKey(template_data, key, st) ==
    IF template_data.t = "map" THEN
        IF ~HasKey(template_data, key) THEN Fail(KeyNotFound, st)
        ELSE Ok(Get(template_data, key), st)
    ELSE IF template_data.t = "seq" THEN
        \* `key not in list` compares elements; list[str] raises TypeError
        IF \E i \in 1..Len(template_data.v) : template_data.v[i] = Str(key)
        THEN Fail(TypeError, st)
        ELSE Fail(KeyNotFound, st)
    ELSE IF template_data.t = "str" THEN
        \* `key not in str` is a substring test; str[str] raises TypeError
        IF \E i \in 0..Len(template_data.v) :
               i + Len(key) <= Len(template_data.v)
               /\ SubSeq(template_data.v, i + 1, i + Len(key)) = key
        THEN Fail(TypeError, st)
        ELSE Fail(KeyNotFound, st)
    ELSE Fail(TypeError, st)

\* lines 196-198: loaded is the file content, from the cache or just read
TemplateLoaded(cache_key, key, loaded) ==
    IF ~loaded.ok THEN loaded
    ELSE LookupKey(loaded.val, key,
                   [loaded.st EXCEPT !.cache = (cache_key :> loaded.val) @@ @])

\* get_template_value
get_template_value(files, template_file, key, st) ==
    TemplateLoaded(CacheKey(template_file), key,
                   IF CacheKey(template_file) \in DOMAIN st.cache
                   THEN Ok(st.cache[CacheKey(template_file)], st)
                   ELSE load_json_file(files, template_file, st))

\* a resolver that keeps resolving a template's own imports against the importer
NestedCurrentFile_Importer(template_file, current_file) == current_file
\* line 226: the file nested imports of the template value are relative to
NestedCurrentFile(template_file, current_file) == template_file
\* line 234: the file imports inside an override value are relative to
OverrideCurrentFile(template_file, current_file) == current_file
\* a merge loop that forgets to skip the "$import" key
IsOverrideKey_Always(k) == TRUE
\* line 232: which keys of the importing node are merged
IsOverrideKey(k) == k # IMPORT
\* a merge in which a key of the template is not overwritten
MergeOverride_TemplateWins(result, k, val) ==
    IF HasKey(result, k) THEN result ELSE Put(result, k, val)
\* line 234: result[k] = <resolved override>
MergeOverride(result, k, val) == Put(result, k, val)
\* a resolver that drops the sibling keys of a non-Mapping import
NoOtherKeys_Always(data) == TRUE
\* line 239: the importing node has no key besides "$import"
NoOtherKeys(data) == Len(data.v) = 1

\* The dict a write of line 234 goes to: `shared` says that it is the dict
\* held in the template cache under cache_key and key, so that the write
\* shows there too.
\* a resolver that merges the overrides into the cached template value itself
MergeTarget_CachedValue(rp) ==
    [shared |-> TRUE, cache_key |-> CacheKey(rp.file), key |-> rp.key]

\* line 229: result = resolved_template.copy() is a dict of its own, and
\* resolved_template is one that lines 226 and 245 built anew
MergeTarget(rp) == [shared |-> FALSE, cache_key |-> CacheKey(rp.file), key |-> rp.key]

\* line 234: result[k] = val, seen from the template cache
WriteThrough(st, target, k, val) ==
    IF ~target.shared THEN st
    ELSE [st EXCEPT !.cache[target.cache_key] =
                        Put(@, target.key, Put(Get(@, target.key), k, val))]

\* resolve_imports(data, current_file). `origin` is a ghost argument: the
\* physical file whose text holds `data`; it is only written to st.lookups.
\* `depth` counts the nested calls against the recursion limit. The steps of
\* the "$import" branch are operators of their own, each given the result of
\* the step before it.
RECURSIVE resolve_imports(_, _, _, _, _, _)
RECURSIVE ResolveOverrides(_, _, _, _, _, _, _, _, _, _)
RECURSIVE ResolveValues(_, _, _, _, _, _, _, _)
RECURSIVE ImportResolved(_, _, _, _, _, _, _)
RECURSIVE ImportLookedUp(_, _, _, _, _, _, _)
RECURSIVE ImportMerged(_, _, _, _, _, _, _)
RECURSIVE OverridesFrom(_, _, _, _, _, _, _, _, _)
RECURSIVE ValuesFrom(_, _, _, _, _, _, _, _)

\* the lookup a call of get_template_value stands for, for the log
LogLookup(st, origin, rp) ==
    [st EXCEPT !.lookups = Append(@, [origin |-> origin, empty |-> rp.empty,
                                      file |-> rp.file, key |-> rp.key])]

\* the resolution of the value under rp's (file, key) starts (line 223) ...
Enter(files, st, rp) ==
    [st EXCEPT !.revisited = @ \/ (\E i \in 1..Len(st.active) :
                                       st.active[i] = <<Realpath(files, rp.file), rp.key>>),
               !.active = Append(@, <<Realpath(files, rp.file), rp.key>>)]

\* ... and is over when the nested call of line 226 has returned
Leave(st) == [st EXCEPT !.active = SubSeq(@, 1, Len(@) - 1)]

\* lines 245 and 249: the dict or list built from the resolved values
Rebuilt(data, r) ==
    IF ~r.ok THEN r
    ELSE IF data.t = "map"
    THEN Ok(Map([i \in 1..Len(data.v) |-> <<data.v[i][1], r.val[i]>>]), r.st)
    ELSE Ok(List(r.val), r.st)

resolve_imports(files, data, current_file, origin, st, depth) ==
    IF depth > RecursionLimit THEN Fail(RecursionError, st)
    ELSE IF data.t = "map" THEN
        IF HasKey(data, IMPORT)
        THEN ImportResolved(files, data,
                            resolve_import_path(Get(data, IMPORT), current_file),
                            current_file, origin, st, depth)
        ELSE Rebuilt(data, ResolveValues(files, data.v, 1, <<>>, current_file,
                                         origin, st, depth))
    ELSE IF data.t = "seq" THEN
        Rebuilt(data, ResolveValues(files, [i \in 1..Len(data.v) |-> <<<<>>, data.v[i]>>],
                                    1, <<>>, current_file, origin, st, depth))
    ELSE Ok(data, st)

\* lines 222-223: rp is what resolve_import_path returned or raised
ImportResolved(files, data, rp, current_file, origin, st, depth) ==
    IF ~rp.ok THEN Fail(rp.err, st)
    ELSE ImportLookedUp(files, data, rp,
                        get_template_value(files, rp.file, rp.key,
                                           Enter(files, LogLookup(st, origin, rp), rp)),
                        current_file, origin, depth)

\* lines 223-226: tv is what get_template_value returned or raised
ImportLookedUp(files, data, rp, tv, current_file, origin, depth) ==
    IF ~tv.ok THEN tv
    ELSE ImportMerged(files, data, rp,
                      resolve_imports(files, tv.val,
                                      NestedCurrentFile(rp.file, current_file),
                                      Realpath(files, rp.file), tv.st, depth + 1),
                      current_file, origin, depth)

\* lines 228-242: rt is the resolved template value
ImportMerged(files, data, rp, rt, current_file, origin, depth) ==
    IF ~rt.ok THEN rt
    ELSE IF rt.val.t = "map"
    THEN ResolveOverrides(files, data.v, 1, rt.val, MergeTarget(rp), rp.file,
                          current_file, origin, Leave(rt.st), depth)
    ELSE IF NoOtherKeys(data) THEN Ok(rt.val, Leave(rt.st))
    ELSE Fail(MergeConflict, Leave(rt.st))

\* line 234: the override value has been resolved to r
OverrideMerged(result, target, k, r) ==
    IF ~r.ok THEN r
    ELSE Ok(MergeOverride(result, k, r.val), WriteThrough(r.st, target, k, r.val))

\* the loop goes on after its i-th item, merged into m, or ends with its failure
OverridesFrom(files, items, i, target, template_file, current_file, origin, depth, m) ==
    IF ~m.ok THEN m
    ELSE ResolveOverrides(files, items, i + 1, m.val, target, template_file,
                          current_file, origin, m.st, depth)

\* the comprehension goes on after its i-th value, resolved to r
ValuesFrom(files, items, i, done, current_file, origin, depth, r) ==
    IF ~r.ok THEN r
    ELSE ResolveValues(files, items, i + 1, Append(done, r.val),
                       current_file, origin, r.st, depth)

\* lines 230-235: the loop over the importing node's items, from the i-th
ResolveOverrides(files, items, i, result, target, template_file, current_file, origin, st, depth) ==
    IF i > Len(items) THEN Ok(result, st)
    ELSE IF ~IsOverrideKey(items[i][1])
    THEN ResolveOverrides(files, items, i + 1, result, target, template_file,
                          current_file, origin, st, depth)
    ELSE OverridesFrom(files, items, i, target, template_file, current_file, origin, depth,
             OverrideMerged(result, target, items[i][1],
                 resolve_imports(files, items[i][2],
                                 OverrideCurrentFile(template_file, current_file),
                                 origin, st, depth + 1)))

\* lines 245 and 249: the comprehensions over a dict's or a list's values, in
\* order, from the i-th; the result's val is the sequence of resolved values
ResolveValues(files, items, i, done, current_file, origin, st, depth) ==
    IF i > Len(items) THEN [ok |-> TRUE, val |-> done, err |-> "", st |-> st]
    ELSE ValuesFrom(files, items, i, done, current_file, origin, depth,
             resolve_imports(files, items[i][2], current_file, origin, st, depth + 1))

\* lines 272-277: device_config is what load_json_file returned or raised
DeviceLoaded(files, device_file, device_config) ==
    IF ~device_config.ok THEN device_config
    ELSE resolve_imports(files, device_config.val, device_file,
                         Realpath(files, device_file), device_config.st, 1)

\* resolve_device_config
resolve_device_config(files) ==
    IF Realpath(files, base_dir \o <<manufacturer_id, device_filename>>) = NoPath
    THEN Fail(TemplateNotFound, EmptySt)
    ELSE DeviceLoaded(files, base_dir \o <<manufacturer_id, device_filename>>,
                      load_json_file(files, base_dir \o <<manufacturer_id, device_filename>>,
                                     EmptySt))

(***************************************************************************)
(* The configuration trees the model draws from: a device file d and a     *)
(* manufacturer template t in devices/m, a master template g in devices.   *)
(* Every file is a Mapping with the top-level keys a and b.                *)
(***************************************************************************)
Imp(r) == Map(<< <<IMPORT, Str(r)>> >>)
ImpWith(r, k, val) == Map(<< <<IMPORT, Str(r)>>, <<k, val>> >>)
WithImp(k, val, r) == Map(<< <<k, val>>, <<IMPORT, Str(r)>> >>)
File(va, vb) == Map(<< <<<<"a">>, va>>, <<<<"b">>, vb>> >>)

SelfA == <<"#", "a">>
SelfB == <<"#", "b">>
TplA == <<"t", "#", "a">>
TplB == <<"t", "#", "b">>
TplABase == <<"~", "/", "m", "/", "t", "#", "a">>
TplADots == <<"..", "/", "m", "/", "t", "#", "a">>
MasterA == <<"~", "/", "g", "#", "a">>
MasterADots == <<"..", "/", "g", "#", "a">>
DevB == <<"d", "#", "b">>
NoHash == <<"t", "a">>
NoFileRef == <<"q", "#", "a">>
NoKeyRef == <<"#", "z">>

\* references written in the device file
DeviceRefs == {SelfA, SelfB, TplA, TplB, TplABase, TplADots, MasterA, NoHash, NoFileRef, NoKeyRef}

DeviceAValues ==
    {Imp(r) : r \in DeviceRefs}
    \cup {ImpWith(r, <<"x">>, Num(9)) : r \in DeviceRefs}
    \cup { Num(1),
           WithImp(<<"x">>, Num(9), TplA),
           ImpWith(TplA, <<"y">>, Imp(SelfB)),
           ImpWith(TplADots, <<"y">>, Imp(TplB)),
           List(<<Imp(SelfB), Num(1), Imp(TplA)>>),
           Map(<< <<<<"x">>, Imp(TplA)>>, <<<<"y">>, Imp(TplADots)>> >>),
           Imp(<<"#", "$import">>),
           Map(<< <<IMPORT, Num(5)>> >>) }

DeviceBValues ==
    { Num(2), Str(<<"s">>), Map(<< <<<<"x">>, Num(5)>>, <<<<"y">>, Num(6)>> >>), Imp(TplB),
      ImpWith(TplA, <<"y">>, Num(6)) }

TemplateAValues ==
    { Num(3),
      Map(<< <<<<"x">>, Num(1)>>, <<<<"w">>, Num(2)>> >>),
      Imp(SelfB),
      ImpWith(SelfB, <<"x">>, Num(8)),
      Imp(MasterA),
      ImpWith(MasterADots, <<"y">>, Imp(SelfB)),
      List(<<Imp(SelfB)>>),
      Imp(DevB) }

TemplateBValues ==
    { Num(4), Map(<< <<<<"x">>, Num(7)>>, <<<<"y">>, Num(8)>> >>), Imp(SelfA), Str(<<"u">>) }

MasterFiles ==
    { File(Map(<< <<<<"x">>, Num(10)>>, <<<<"v">>, Num(11)>> >>), Num(12)),
      File(ImpWith(SelfB, <<"x">>, Num(14)), Map(<< <<<<"v">>, Num(13)>> >>)) }

DeviceFiles == {File(va, vb) : va \in DeviceAValues, vb \in DeviceBValues}
TemplateFiles == {File(va, vb) : va \in TemplateAValues, vb \in TemplateBValues}

Tree3(d, t, g) == (DevicePath :> d) @@ (TemplatePath :> t) @@ (MasterPath :> g)
Tree2(d, g) == (DevicePath :> d) @@ (MasterPath :> g)

ResolverTrees ==
    {Tree3(d, t, g) : d \in DeviceFiles, t \in TemplateFiles, g \in MasterFiles}
    \cup {Tree2(d, g) : d \in DeviceFiles, g \in MasterFiles}

(***************************************************************************)
(* The resolver on its own: one call of resolve_device_config, or of       *)
(* resolve_imports on a top-level value of one of the files.               *)
(***************************************************************************)
NoFile == <<[t |-> "absent", v |-> 0]>>
NoRun == [kind |-> "none", silent |-> FALSE, asked |-> FALSE, response |-> <<>>,
          outcome |-> "none", err |-> "", again |-> FALSE]
NoCall == [op |-> "none", data |-> Num(0), file |-> <<>>]
NoRes == Fail("", EmptySt)
NoReport == [done |-> {}, equal |-> FALSE, diffs |-> <<>>]

InitResolve ==
    /\ fs \in ResolverTrees
    /\ call = NoCall
    /\ res = NoRes
    /\ artifact = NoFile
    /\ now = 0
    /\ run = NoRun
    /\ txt = <<>>
    /\ stripped = <<>>
    /\ old_obj = Num(0)
    /\ new_obj = Num(0)
    /\ report = NoReport

ResolveDevice ==
    /\ call = NoCall
    /\ call' = [op |-> "resolve_device_config", data |-> fs[DevicePath], file |-> DevicePath]
    /\ res' = resolve_device_config(fs)
    /\ UNCHANGED <<fs, artifact, now, run, txt, stripped, old_obj, new_obj, report>>

ResolveNode(f, k) ==
    /\ call = NoCall
    /\ call' = [op |-> "resolve_imports", data |-> Get(fs[f], k), file |-> f]
    /\ res' = resolve_imports(fs, Get(fs[f], k), f, f, EmptySt, 1)
    /\ UNCHANGED <<fs, artifact, now, run, txt, stripped, old_obj, new_obj, report>>

NextResolve ==
    \/ ResolveDevice
    \/ \E f \in DOMAIN fs : \E k \in Keys(fs[f]) : ResolveNode(f, k)

SpecResolve == InitResolve /\ [][NextResolve]_vars

(***************************************************************************)
(* Properties of the resolver, under SpecResolve.                          *)
(***************************************************************************)
\* a Mapping with the key "$import" occurs somewhere in x
RECURSIVE HasImportKey(_)
HasImportKey(x) ==
    IF x.t = "map"
    THEN HasKey(x, IMPORT) \/ \E i \in 1..Len(x.v) : HasImportKey(x.v[i][2])
    ELSE IF x.t = "seq" THEN \E i \in 1..Len(x.v) : HasImportKey(x.v[i])
    ELSE FALSE

IsImportNode(x) == x.t = "map" /\ HasKey(x, IMPORT)
Siblings(node) == Keys(node) \ {IMPORT}

\* the last call was resolve_imports on an importing Mapping
ImportCall == call.op = "resolve_imports" /\ IsImportNode(call.data)

\* What the "$import" of the node of the last call resolves to: the value under
\* the referenced key of the referenced file, resolved with that file as the
\* current file (one call below the node's own).
ImportTarget ==
    LET rp == resolve_import_path(Get(call.data, IMPORT), call.file) IN
    IF ~rp.ok THEN Fail(rp.err, EmptySt)
    ELSE LET tv == get_template_value(fs, rp.file, rp.key, EmptySt) IN
         IF ~tv.ok THEN tv
         ELSE resolve_imports(fs, tv.val, rp.file, Realpath(fs, rp.file), tv.st, 2)

\* a sibling value of the node of the last call, resolved on its own against
\* the file the node is written in
SiblingResolved(k) ==
    resolve_imports(fs, Get(call.data, k), call.file, call.file, EmptySt, 2)

\* C1: whenever resolve_imports (or resolve_device_config) returns a value, no
\* Mapping of the returned tree has the key "$import", at any depth.
C1_NoImportSurvives == res.ok => ~HasImportKey(res.val)

\* C1's case: a document whose import went through a template that imports
\* again, and whose importing node has an override that is itself an import.
C1_Witness ==
    /\ res.ok
    /\ call.op = "resolve_device_config"
    /\ Len(res.st.lookups) >= 4
    /\ \E i \in 1..Len(call.data.v) :
          LET n == call.data.v[i][2] IN
          /\ IsImportNode(n)
          /\ \E k \in Siblings(n) : IsImportNode(Get(n, k))

\* C4: in one run of resolve_device_config no file is read twice.
C4_EachFileReadOnce ==
    call.op = "resolve_device_config" =>
        \A i, j \in 1..Len(res.st.reads) : i # j => res.st.reads[i] # res.st.reads[j]

\* What the cache does give: within one run of resolve_device_config every
\* read but the device file's own is the loading of a new cache entry.
ReadsBoundedByCache ==
    call.op = "resolve_device_config" =>
        Len(res.st.reads) <= 1 + Cardinality(DOMAIN res.st.cache)

\* C5: when the "$import" of a node resolves to a Mapping T and the node's
\* sibling values resolve, the result is a Mapping with the keys of T and the
\* sibling keys; a sibling key has the resolved sibling value, a key of T that
\* is no sibling has T's value.
C5_OverridePrecedence ==
    (/\ ImportCall
     /\ ImportTarget.ok
     /\ ImportTarget.val.t = "map"
     /\ \A k \in Siblings(call.data) : SiblingResolved(k).ok)
    => /\ res.ok
       /\ res.val.t = "map"
       /\ Keys(res.val) = Keys(ImportTarget.val) \cup Siblings(call.data)
       /\ \A k \in Siblings(call.data) : Get(res.val, k) = SiblingResolved(k).val
       /\ \A k \in Keys(ImportTarget.val) \ Siblings(call.data) :
              Get(res.val, k) = Get(ImportTarget.val, k)

\* C5's case: an override of a key the template has too, with another value,
\* beside a key only the template has.
C5_Witness ==
    /\ ImportCall
    /\ res.ok
    /\ ImportTarget.ok
    /\ ImportTarget.val.t = "map"
    /\ \E k \in Siblings(call.data) :
          /\ k \in Keys(ImportTarget.val)
          /\ Get(ImportTarget.val, k) # Get(res.val, k)
    /\ Keys(ImportTarget.val) \ Siblings(call.data) # {}

\* C6: every import with an empty path is looked up in the file whose text
\* holds the importing node.
C6_SelfReferenceFile ==
    \A i \in 1..Len(res.st.lookups) :
        res.st.lookups[i].empty =>
            Realpath(fs, res.st.lookups[i].file) = res.st.lookups[i].origin

\* C6's case: one run with a self-reference written in the master template,
\* then one in an override written in the manufacturer template, then one in
\* an override written in the device file.
C6_Witness ==
    /\ res.ok
    /\ \E i, j, k \in 1..Len(res.st.lookups) :
          /\ i < j /\ j < k
          /\ res.st.lookups[i].empty /\ res.st.lookups[i].origin = MasterPath
          /\ res.st.lookups[j].empty /\ res.st.lookups[j].origin = TemplatePath
          /\ res.st.lookups[k].empty /\ res.st.lookups[k].origin = DevicePath

\* C8: when the "$import" of a node resolves to a value that is no Mapping,
\* the call fails with the merge conflict if the node has a sibling key, and
\* returns that value if "$import" is its only key.
C8_NonMappingTemplate ==
    (ImportCall /\ ImportTarget.ok /\ ImportTarget.val.t # "map")
    => IF Siblings(call.data) # {}
       THEN ~res.ok /\ res.err = MergeConflict
       ELSE res.ok /\ res.val = ImportTarget.val

\* C8's case: a Sequence-valued template imported by a node with a sibling.
C8_Witness ==
    /\ ImportCall
    /\ ImportTarget.ok
    /\ ImportTarget.val.t = "seq"
    /\ Siblings(call.data) # {}
    /\ res.err = MergeConflict

\* the error the specification asks for when imports form a cycle
CyclicImport == "CyclicImport"

\* the last call made a lookup of a (file, key) pair whose value was still
\* being resolved: its imports form a cycle
CycleMet == call # NoCall /\ res.st.revisited

\* C13: when the imports form a cycle (a lookup names a (file, key) pair that
\* is still being resolved, a key importing itself with "#key" included),
\* resolve_imports fails with the CyclicImport error and does not recurse
\* until the call stack is exhausted.
C13_CyclicImportDetected ==
    CycleMet => (~res.ok /\ res.err = CyclicImport /\ res.err # RecursionError)

\* What the code does on a cycle: it recurses until Python's recursion limit
\* ends the run with RecursionError, and only a cycle ends a run so.
CycleEndsInRecursionError ==
    call # NoCall => (res.st.revisited <=> (~res.ok /\ res.err = RecursionError))

\* a top-level value of the document of the last call, resolved on its own
\* by a run that starts with an empty cache
ResolvedAlone(k) ==
    resolve_imports(fs, Get(call.data, k), call.file, call.file, EmptySt, 2)

LexemeOrder ==
    <<" ", "#", "$import", "..", "/", "0", "1", "2", "3", "4", "5", "6", "7", "8", "9",
      "a", "b", "d", "devices", "g", "last_update", "m", "q", "s", "t", "u", "v",
      "vers", "w", "x", "y", "z", "~">>
Rank(c) == CHOOSE i \in 1..Len(LexemeOrder) : LexemeOrder[i] = c

\* k1 < k2 for two strings
RECURSIVE StrLess(_, _)
StrLess(k1, k2) ==
    IF Len(k2) = 0 THEN FALSE
    ELSE IF Len(k1) = 0 THEN TRUE
    ELSE IF k1[1] = k2[1] THEN StrLess(Tail(k1), Tail(k2))
    ELSE Rank(k1[1]) < Rank(k2[1])

\* sorted(obj.items()): the items in ascending key order
RECURSIVE SortedItems(_)
SortedItems(items) ==
    IF Len(items) = 0 THEN <<>>
    ELSE LET m == CHOOSE i \in 1..Len(items) :
                      \A j \in 1..Len(items) : j # i => StrLess(items[i][1], items[j][1])
         IN  <<items[m]>> \o
             SortedItems(SubSeq(items, 1, m - 1) \o SubSeq(items, m + 1, Len(items)))

\* normalize_json
RECURSIVE normalize_json(_)
normalize_json(obj) ==
    IF obj.t = "map" THEN
        LET sorted == SortedItems(obj.v)
        IN  Map([i \in 1..Len(sorted) |-> <<sorted[i][1], normalize_json(sorted[i][2])>>])
    ELSE IF obj.t = "seq" THEN List([i \in 1..Len(obj.v) |-> normalize_json(obj.v[i])])
    ELSE obj

\* Python's bool is an int: True == 1 and False == 0
IsNumber(x) == x.t \in {"num", "bool"}
PyNum(x) == IF x.t = "bool" THEN (IF x.v THEN 1 ELSE 0) ELSE x.v

\* Python's == on parsed JSON: numbers (bools among them) by value, dicts are
\* equal when they have the same keys with equal values, whatever the
\* insertion order; lists element by element
RECURSIVE PyEq(_, _)
PyEq(x, y) ==
    IF IsNumber(x) /\ IsNumber(y) THEN PyNum(x) = PyNum(y)
    ELSE IF x.t # y.t THEN FALSE
    ELSE IF x.t = "map" THEN
        /\ Keys(x) = Keys(y)
        /\ \A k \in Keys(x) : PyEq(Get(x, k), Get(y, k))
    ELSE IF x.t = "seq" THEN
        /\ Len(x.v) = Len(y.v)
        /\ \A i \in 1..Len(x.v) : PyEq(x.v[i], y.v[i])
    ELSE x.v = y.v

\* json_objects_equal
json_objects_equal(obj1, obj2) == PyEq(normalize_json(obj1), normalize_json(obj2))

(***************************************************************************)
(* The output file's text: json.dumps writes a token sequence (indentation *)
(* left out), json.load parses it back.                                    *)
(***************************************************************************)
Tok(k, v) == [t |-> k, v |-> v]

RECURSIVE json_dumps(_)
RECURSIVE DumpMembers(_, _)
RECURSIVE DumpElements(_, _)
json_dumps(x) ==
    IF x.t = "map" THEN <<Tok("{", 0)>> \o DumpMembers(x.v, 1) \o <<Tok("}", 0)>>
    ELSE IF x.t = "seq" THEN <<Tok("[", 0)>> \o DumpElements(x.v, 1) \o <<Tok("]", 0)>>
    ELSE IF x.t = "str" THEN <<Tok("str", x.v)>>
    ELSE IF x.t = "bool" THEN <<Tok("bool", x.v)>>
    ELSE <<Tok("num", x.v)>>
DumpMembers(items, i) ==
    IF i > Len(items) THEN <<>>
    ELSE (IF i > 1 THEN <<Tok(",", 0)>> ELSE <<>>)
         \o <<Tok("str", items[i][1]), Tok(":", 0)>>
         \o json_dumps(items[i][2]) \o DumpMembers(items, i + 1)
DumpElements(elems, i) ==
    IF i > Len(elems) THEN <<>>
    ELSE (IF i > 1 THEN <<Tok(",", 0)>> ELSE <<>>)
         \o json_dumps(elems[i]) \o DumpElements(elems, i + 1)

\* the parser: the value that starts at token i, and the place after it
RECURSIVE ParseValue(_, _)
RECURSIVE ParseMembers(_, _, _)
RECURSIVE ParseElements(_, _, _)
RECURSIVE MemberParsed(_, _, _, _)
RECURSIVE ElementParsed(_, _, _)
ParseValue(text, i) ==
    IF text[i].t = "{" THEN
        IF text[i + 1].t = "}" THEN [val |-> Map(<<>>), next |-> i + 2]
        ELSE ParseMembers(text, i + 1, Map(<<>>))
    ELSE IF text[i].t = "[" THEN
        IF text[i + 1].t = "]" THEN [val |-> List(<<>>), next |-> i + 2]
        ELSE ParseElements(text, i + 1, <<>>)
    ELSE IF text[i].t = "str" THEN [val |-> Str(text[i].v), next |-> i + 1]
    ELSE IF text[i].t = "bool" THEN [val |-> Bool(text[i].v), next |-> i + 1]
    ELSE [val |-> Num(text[i].v), next |-> i + 1]
\* a member's value r has been parsed: the members go on after a comma
MemberParsed(text, key, acc, r) ==
    IF text[r.next].t = ","
    THEN ParseMembers(text, r.next + 1, Put(acc, key, r.val))
    ELSE [val |-> Put(acc, key, r.val), next |-> r.next + 1]
ParseMembers(text, i, acc) == MemberParsed(text, text[i].v, acc, ParseValue(text, i + 2))
\* an element r has been parsed: the elements go on after a comma
ElementParsed(text, acc, r) ==
    IF text[r.next].t = ","
    THEN ParseElements(text, r.next + 1, Append(acc, r.val))
    ELSE [val |-> List(Append(acc, r.val)), next |-> r.next + 1]
ParseElements(text, i, acc) == ElementParsed(text, acc, ParseValue(text, i))

\* json.load of the output file
json_load(text) == ParseValue(text, 1).val

\* json.dumps(resolved_config, indent=2) + '\n'
json_output(resolved_config) == json_dumps(resolved_config) \o <<Tok("nl", 0)>>

(***************************************************************************)
(* JsonDiffer.generate_diff_report. The report is a sequence of lines; a   *)
(* line is kept as its kind, the path it names, the two lengths and the    *)
(* json.dumps text it shows. A path is a string: keys joined with ".".     *)
(***************************************************************************)
Line(kind, path, old_len, new_len, text) ==
    [kind |-> kind, path |-> path, old_len |-> old_len, new_len |-> new_len, text |-> text]

\* f"{path}.{key}" if path else key
NewPath(path, key) == IF path = <<>> THEN key ELSE path \o <<".">> \o key

\* lines 59-61 and 64-66: one line for every key of `obj` that `other` lacks
RECURSIVE KeyLines(_, _, _, _, _)
KeyLines(kind, obj, other, path, i) ==
    IF i > Len(obj.v) THEN <<>>
    ELSE (IF ~HasKey(other, obj.v[i][1])
          THEN <<Line(kind, NewPath(path, obj.v[i][1]), 0, 0, <<>>)>>
          ELSE <<>>)
         \o KeyLines(kind, obj, other, path, i + 1)

\* isinstance(x, (dict, list))
IsContainer(x) == x.t \in {"map", "seq"}

\* line 73: both values are containers, so the report descends into them
DescendInto(old_val, new_val) == IsContainer(old_val) /\ IsContainer(new_val)

\* lines 76-78: the three lines of a modified value
ModifiedLines(new_path, old_val, new_val) ==
    << Line("modified", new_path, 0, 0, <<>>),
       Line("old", <<>>, 0, 0, json_dumps(old_val)),
       Line("new", <<>>, 0, 0, json_dumps(new_val)) >>

RECURSIVE generate_diff_report(_, _, _)
RECURSIVE ModifiedFrom(_, _, _, _)

\* generate_diff_report
generate_diff_report(old, new, path) ==
    IF old.t = "map" /\ new.t = "map" THEN
        KeyLines("removed", old, new, path, 1)
        \o KeyLines("added", new, old, path, 1)
        \o ModifiedFrom(old, new, path, 1)
    ELSE IF old.t = "seq" /\ new.t = "seq" THEN
        (IF Len(old.v) # Len(new.v)
         THEN <<Line("length", path, Len(old.v), Len(new.v), <<>>)>>
         ELSE <<>>)
        \o (IF ~json_objects_equal(old, new)
            THEN <<Line("content", path, 0, 0, <<>>)>>
            ELSE <<>>)
    ELSE <<>>

\* lines 69-78: the loop over the keys of old_obj that new_obj has too, from the i-th
ModifiedFrom(old, new, path, i) ==
    IF i > Len(old.v) THEN <<>>
    ELSE (IF ~HasKey(new, old.v[i][1]) THEN <<>>
          ELSE IF json_objects_equal(old.v[i][2], Get(new, old.v[i][1])) THEN <<>>
          ELSE IF DescendInto(old.v[i][2], Get(new, old.v[i][1]))
          THEN generate_diff_report(old.v[i][2], Get(new, old.v[i][1]),
                                    NewPath(path, old.v[i][1]))
          ELSE ModifiedLines(NewPath(path, old.v[i][1]), old.v[i][2],
                             Get(new, old.v[i][1])))
         \o ModifiedFrom(old, new, path, i + 1)

(***************************************************************************)
(* JsonDiffer on its own: two documents are compared and their diff report *)
(* is made. The documents are small trees over the scalars 1, 2, true and  *)
(* "s", with Mappings in both key orders and Sequences in both element     *)
(* orders down to the third level.                                         *)
(***************************************************************************)
KeyA == <<"a">>
KeyB == <<"b">>
Pair(x, y) == List(<<x, y>>)
MapAB(x, y) == Map(<< <<KeyA, x>>, <<KeyB, y>> >>)
MapBA(x, y) == Map(<< <<KeyB, y>>, <<KeyA, x>> >>)
MapA(x) == Map(<< <<KeyA, x>> >>)

DiffNumbers == {Num(1), Num(2), Bool(TRUE)}
DiffScalars == DiffNumbers \cup {Str(<<"s">>)}

\* the values of the second level
DiffInner ==
    DiffScalars
    \cup {Pair(x, y) : x, y \in DiffNumbers}
    \cup {List(<<>>), List(<<Num(1)>>), Map(<<>>), MapA(Num(1))}
    \cup {MapAB(Num(1), Num(2)), MapBA(Num(1), Num(2))}

\* two containers in both orders inside a Sequence or a Mapping
DiffDeep ==
    LET maps == {MapAB(Num(1), Num(2)), MapBA(Num(1), Num(2))}
        seqs == {Pair(Num(1), Num(2)), Pair(Num(2), Num(1))}
    IN  {Pair(m, l) : m \in maps, l \in seqs}
        \cup {Pair(l, m) : m \in maps, l \in seqs}
        \cup {MapAB(m, l) : m \in maps, l \in seqs}
        \cup {MapBA(m, l) : m \in maps, l \in seqs}

DiffDocs ==
    DiffInner
    \cup {MapA(x) : x \in DiffInner \cup DiffDeep}
    \cup {MapAB(x, Num(2)) : x \in {Num(1), List(<<>>), Map(<<>>)}}
    \cup {MapBA(Num(1), y) : y \in {Num(2), Str(<<"s">>)}}
    \cup DiffDeep

InitDiff ==
    /\ old_obj \in DiffDocs
    /\ new_obj \in DiffDocs
    /\ report = NoReport
    /\ fs = (MasterPath :> Map(<<>>))
    /\ artifact = NoFile
    /\ now = 0
    /\ run = NoRun
    /\ call = NoCall
    /\ res = NoRes
    /\ txt = <<>>
    /\ stripped = <<>>

JsonObjectsEqual ==
    /\ "json_objects_equal" \notin report.done
    /\ report' = [report EXCEPT !.done = @ \cup {"json_objects_equal"},
                                !.equal = json_objects_equal(old_obj, new_obj)]
    /\ UNCHANGED <<fs, artifact, now, run, call, res, txt, stripped, old_obj, new_obj>>

GenerateDiffReport ==
    /\ "generate_diff_report" \notin report.done
    /\ report' = [report EXCEPT !.done = @ \cup {"generate_diff_report"},
                                !.diffs = generate_diff_report(old_obj, new_obj, <<>>)]
    /\ UNCHANGED <<fs, artifact, now, run, call, res, txt, stripped, old_obj, new_obj>>

NextDiff ==
    \/ JsonObjectsEqual
    \/ GenerateDiffReport

SpecDiff == InitDiff /\ [][NextDiff]_vars

(***************************************************************************)
(* Properties of JsonDiffer, under SpecDiff.                               *)
(***************************************************************************)
\* x and y are the same tree but for the order of the keys of their Mappings
RECURSIVE SameUpToKeyOrder(_, _)
SameUpToKeyOrder(x, y) ==
    IF x.t # y.t THEN FALSE
    ELSE IF x.t = "map" THEN
        /\ Keys(x) = Keys(y)
        /\ \A k \in Keys(x) : SameUpToKeyOrder(Get(x, k), Get(y, k))
    ELSE IF x.t = "seq" THEN
        /\ Len(x.v) = Len(y.v)
        /\ \A i \in 1..Len(x.v) : SameUpToKeyOrder(x.v[i], y.v[i])
    ELSE x.v = y.v

\* the elements of s are pairwise different trees
DistinctElements(s) ==
    \A i, j \in 1..Len(s) : i # j => ~SameUpToKeyOrder(s[i], s[j])

\* s2 holds the elements of s1 in another order
Reordered(s1, s2) ==
    /\ Len(s1) = Len(s2)
    /\ \E p \in Permutations(1..Len(s1)) :
          /\ \E i \in 1..Len(s1) : p[i] # i
          /\ \A i \in 1..Len(s1) : SameUpToKeyOrder(s2[i], s1[p[i]])

\* y is x with the distinct elements of one of its Sequences, at any depth,
\* in another order
RECURSIVE SeqPermuted(_, _)
SeqPermuted(x, y) ==
    IF x.t # y.t THEN FALSE
    ELSE IF x.t = "seq" THEN
        \/ DistinctElements(x.v) /\ Reordered(x.v, y.v)
        \/ /\ Len(x.v) = Len(y.v)
           /\ \E i \in 1..Len(x.v) :
                 /\ SeqPermuted(x.v[i], y.v[i])
                 /\ \A j \in 1..Len(x.v) : j # i => SameUpToKeyOrder(x.v[j], y.v[j])
    ELSE IF x.t = "map" THEN
        /\ Keys(x) = Keys(y)
        /\ \E k \in Keys(x) :
              /\ SeqPermuted(Get(x, k), Get(y, k))
              /\ \A j \in Keys(x) : j # k => SameUpToKeyOrder(Get(x, j), Get(y, j))
    ELSE FALSE

\* a boolean occurs somewhere in x
RECURSIVE HasBool(_)
HasBool(x) ==
    IF x.t = "map" THEN \E i \in 1..Len(x.v) : HasBool(x.v[i][2])
    ELSE IF x.t = "seq" THEN \E i \in 1..Len(x.v) : HasBool(x.v[i])
    ELSE x.t = "bool"

Compared == "json_objects_equal" \in report.done
Reported == "generate_diff_report" \in report.done

\* C11: two trees that differ only in the order of Mapping keys, at any depth,
\* compare equal under json_objects_equal, and two trees of which one is the
\* other with the distinct elements of some Sequence, at any depth, in
\* another order compare unequal.
C11_OrderSensitivity ==
    Compared =>
        /\ SameUpToKeyOrder(old_obj, new_obj) => report.equal
        /\ SeqPermuted(old_obj, new_obj) => ~report.equal

\* What does hold of C11: the order of keys never matters, and the order of
\* elements matters in every tree without booleans.
KeyOrderInsensitive ==
    (Compared /\ SameUpToKeyOrder(old_obj, new_obj)) => report.equal

ElementOrderSensitiveWithoutBool ==
    (Compared /\ SeqPermuted(old_obj, new_obj) /\ ~HasBool(old_obj)) => ~report.equal

\* the two values are of different kinds and one of them is a container
MismatchedTypes(x, y) == x.t # y.t /\ (IsContainer(x) \/ IsContainer(y))

\* the report has a "Modified" line for the path
ModifiedAt(path) ==
    \E i \in 1..Len(report.diffs) :
        report.diffs[i].kind = "modified" /\ report.diffs[i].path = path

BothMappings == old_obj.t = "map" /\ new_obj.t = "map"

\* C12: when a key of both Mappings holds values of mismatched types (a
\* Mapping against a Sequence, or a container against a scalar), the report
\* of generate_diff_report has a modified-value entry at that key's path, so
\* the report is not empty.
C12_TypeMismatchReported ==
    (Reported /\ BothMappings) =>
        \A k \in Keys(old_obj) \cap Keys(new_obj) :
            MismatchedTypes(Get(old_obj, k), Get(new_obj, k))
                => ModifiedAt(k) /\ report.diffs # <<>>

\* What does hold of C12: a container against a scalar is reported.
ScalarMismatchReported ==
    (Reported /\ BothMappings) =>
        \A k \in Keys(old_obj) \cap Keys(new_obj) :
            (/\ MismatchedTypes(Get(old_obj, k), Get(new_obj, k))
             /\ ~DescendInto(Get(old_obj, k), Get(new_obj, k)))
                => ModifiedAt(k)

(***************************************************************************)
(* process_device.                                                         *)
(***************************************************************************)
\* datetime.now().isoformat()
isoformat(ts) == Str(<<ToString(ts)>>)

\* str.strip() and str.lower() on the answer read from the terminal
IsSpace(c) == c \in {" ", "\t", "\r", "\n"}
RECURSIVE LStrip(_)
LStrip(s) == IF Len(s) > 0 /\ IsSpace(s[1]) THEN LStrip(Tail(s)) ELSE s
RECURSIVE RStrip(_)
RStrip(s) == IF Len(s) > 0 /\ IsSpace(s[Len(s)]) THEN RStrip(SubSeq(s, 1, Len(s) - 1)) ELSE s
Strip(s) == RStrip(LStrip(s))
LowerChar(c) ==
    IF c = "Y" THEN "y" ELSE IF c = "E" THEN "e" ELSE IF c = "S" THEN "s"
    ELSE IF c = "N" THEN "n" ELSE c
Lower(s) == [i \in 1..Len(s) |-> LowerChar(s[i])]

\* an interactive run that overwrites without waiting for the answer
Confirmed_Always(answer) == TRUE
\* lines 469-471: response = input().strip().lower(); response in ('y', 'yes')
Confirmed(answer) == Lower(Strip(answer)) \in {<<"y">>, <<"y", "e", "s">>}

\* a version bump that skips a number
NextVersion_Skips(existing_version) == Num(existing_version.v + 2)
\* lines 455 and 476: existing_version += 1
NextVersion(existing_version) == Num(existing_version.v + 1)

\* a comparison copy stamped with the time of this run
SplicedLastUpdate_Now(existing_data, current_timestamp) == current_timestamp
\* line 442: existing_data.get('last_update', current_timestamp)
SplicedLastUpdate(existing_data, current_timestamp) ==
    GetOr(existing_data, LAST_UPDATE, current_timestamp)

\* a failure path that leaves no output file behind
ArtifactAfterError_Removed(out) == NoFile
\* lines 499-510: the handlers print and exit; the output file is not touched
ArtifactAfterError(out) == out

\* lines 478-489: the metadata is set and the file written
WriteArtifact(resolved_config, existing_version, current_timestamp) ==
    json_output(Put(Put(resolved_config, VERS, existing_version),
                    LAST_UPDATE, current_timestamp))

\* what a run of process_device comes to: its outcome, the exception if any,
\* whether the user was asked, and the output file after it. outcome: "new",
\* "updated", "unchanged", "cancelled", "error" (a caught exception: message
\* and exit status 1) or "crash" (an exception the handlers do not name).
RunResult(outcome, err, asked, file) ==
    [outcome |-> outcome, err |-> err, asked |-> asked, out |-> file]

\* lines 439-476: the comparison with the existing file's data and what follows
Compare(resolved_config, out, existing_data, existing_version, current_timestamp, silent_mode, answer) ==
    IF json_objects_equal(existing_data,
           Put(Put(resolved_config, VERS, existing_version), LAST_UPDATE,
               SplicedLastUpdate(existing_data, current_timestamp)))
    THEN RunResult("unchanged", "", FALSE, out)
    ELSE IF silent_mode
    THEN RunResult("updated", "", FALSE,
                   WriteArtifact(resolved_config, NextVersion(existing_version),
                                 current_timestamp))
    ELSE IF ~Confirmed(answer)
    THEN RunResult("cancelled", "", TRUE, out)
    ELSE RunResult("updated", "", TRUE,
                   WriteArtifact(resolved_config, NextVersion(existing_version),
                                 current_timestamp))

\* lines 432-437: the existing file is read
Existing(resolved_config, out, existing_data, current_timestamp, silent_mode, answer) ==
    Compare(resolved_config, out, existing_data, GetOr(existing_data, VERS, Num(1)),
            current_timestamp, silent_mode, answer)

\* lines 421-510: resolved is what resolve_device_config returned or raised
Reconcile(resolved, out, current_timestamp, silent_mode, answer) ==
    IF ~resolved.ok THEN
        RunResult(IF resolved.err \in CaughtErrors THEN "error" ELSE "crash",
                  resolved.err, FALSE, ArtifactAfterError(out))
    ELSE IF resolved.val.t # "map" THEN
        \* a list has no item 'vers', a scalar no copy(): TypeError or AttributeError
        RunResult("crash", IF resolved.val.t = "seq" \/ out = NoFile
                           THEN TypeError ELSE AttributeError,
                  FALSE, ArtifactAfterError(out))
    ELSE IF out # NoFile
    THEN Existing(resolved.val, out, json_load(out), current_timestamp, silent_mode, answer)
    ELSE RunResult("new", "", FALSE, WriteArtifact(resolved.val, Num(1), current_timestamp))

\* process_device, for the configuration `files`, the output file `out`, the
\* clock reading `ts`, the mode and the answer the user would give if asked
process_device(files, out, ts, silent_mode, answer) ==
    Reconcile(resolve_device_config(files), out, isoformat(ts), silent_mode, answer)

(***************************************************************************)
(* The reconciliation machine: the configuration is edited, the clock      *)
(* advances, and process_device is run over and over on one output path.   *)
(***************************************************************************)
PlainA == Map(<< <<<<"x">>, Num(1)>>, <<<<"w">>, Num(2)>> >>)
ProcessTemplate == File(PlainA, Num(4))
\* the same template with the keys of a in another order, and with w changed
ProcessTemplatePermuted == File(Map(<< <<<<"w">>, Num(2)>>, <<<<"x">>, Num(1)>> >>), Num(4))
ProcessTemplateChanged == File(Map(<< <<<<"x">>, Num(1)>>, <<<<"w">>, Num(3)>> >>), Num(4))
ProcessMaster == File(PlainA, Num(12))

ProcessTrees ==
    {Tree3(File(va, Num(2)), t, ProcessMaster) :
        va \in {Imp(TplA), ImpWith(TplA, <<"x">>, Num(9))},
        t \in {ProcessTemplate, ProcessTemplatePermuted, ProcessTemplateChanged}}
    \cup {Tree3(File(va, Num(2)), ProcessTemplate, ProcessMaster) :
        va \in {ImpWith(TplB, <<"x">>, Num(9)), Imp(NoHash), Imp(NoFileRef),
                Imp(NoKeyRef), Imp(SelfA)}}
    \cup {Tree3(d, ProcessTemplate, ProcessMaster) :
        d \in {List(<<Num(1)>>), BadJson,
               Map(<< <<VERS, Num(7)>>, <<<<"a">>, Imp(TplB)>> >>)}}
    \cup {(MasterPath :> ProcessMaster)}

\* what the user may type at the prompt
Answers == {<<"y">>, <<" ", "Y", "E", "S", " ">>, <<"n">>, <<"y", "e", "s", "s">>}

\* the stored version and timestamp of an output file
VersionOf(file) == IF file = NoFile THEN 0 ELSE Get(json_load(file), VERS).v
LastUpdateOf(file) == IF file = NoFile THEN Str(<<>>) ELSE Get(json_load(file), LAST_UPDATE)

\* outcomes after which the output file is that of the current configuration
InSync == {"new", "updated", "unchanged"}

Init ==
    /\ fs \in ProcessTrees
    /\ artifact = NoFile
    /\ now = 0
    /\ run = NoRun
    /\ call = NoCall
    /\ res = NoRes
    /\ txt = <<>>
    /\ stripped = <<>>
    /\ old_obj = Num(0)
    /\ new_obj = Num(0)
    /\ report = NoReport

\* the record of a run that came to r
RunRecord(r, silent_mode, answer) ==
    [kind |-> "process", silent |-> silent_mode, asked |-> r.asked,
     response |-> IF r.asked THEN answer ELSE <<>>,
     outcome |-> r.outcome, err |-> r.err,
     again |-> (run.kind = "process" /\ run.outcome \in InSync)]

Ran(r, silent_mode, answer) ==
    /\ artifact' = r.out
    /\ run' = RunRecord(r, silent_mode, answer)

ProcessDevice(silent_mode, answer) ==
    /\ VersionOf(artifact) < MaxVers
    /\ Ran(process_device(fs, artifact, now, silent_mode, answer), silent_mode, answer)
    /\ UNCHANGED <<fs, now, call, res, txt, stripped, old_obj, new_obj, report>>

Tick ==
    /\ now < MaxClock
    /\ now' = now + 1
    /\ UNCHANGED <<fs, artifact, run, call, res, txt, stripped, old_obj, new_obj, report>>

EditSource(files) ==
    /\ files # fs
    /\ fs' = files
    /\ run' = [NoRun EXCEPT !.kind = "edit"]
    /\ UNCHANGED <<artifact, now, call, res, txt, stripped, old_obj, new_obj, report>>

Next ==
    \/ \E silent_mode \in BOOLEAN : \E answer \in Answers : ProcessDevice(silent_mode, answer)
    \/ Tick
    \/ \E files \in ProcessTrees : EditSource(files)

Spec == Init /\ [][Next]_vars

(***************************************************************************)
(* Properties of the reconciliation, under Spec. A step that leaves the    *)
(* configuration and the clock alone is a run of process_device.           *)
(***************************************************************************)
IsRun == fs' = fs /\ now' = now

\* the answers that confirm: y or yes, in any case, blanks around them ignored
SaysYes(answer) == Lower(Strip(answer)) \in {<<"y">>, <<"y", "e", "s">>}

\* a document without the two metadata fields
StripMeta(doc) ==
    Map(SelectSeq(doc.v, LAMBDA item : item[1] # VERS /\ item[1] # LAST_UPDATE))

\* the configuration resolves to a Mapping whose content is not the content
\* of the output file
ContentDiffers ==
    /\ artifact # NoFile
    /\ resolve_device_config(fs).ok
    /\ resolve_device_config(fs).val.t = "map"
    /\ ~PyEq(StripMeta(resolve_device_config(fs).val), StripMeta(json_load(artifact)))

\* C2: the first write stores version 1; a run that finds a change and writes
\* stores the previous version plus 1; no step lowers the stored version or
\* raises it by more than 1.
C2_VersionMonotone ==
    [][ /\ (artifact = NoFile /\ artifact' # NoFile => VersionOf(artifact') = 1)
        /\ (artifact # NoFile =>
               /\ artifact' # NoFile
               /\ VersionOf(artifact') >= VersionOf(artifact)
               /\ VersionOf(artifact') <= VersionOf(artifact) + 1)
        /\ (artifact # NoFile /\ artifact' # artifact =>
               VersionOf(artifact') = VersionOf(artifact) + 1)
        /\ (IsRun /\ ContentDiffers /\ run'.outcome = "updated" =>
               VersionOf(artifact') = VersionOf(artifact) + 1)
      ]_vars

\* C2's case: the third version, written by an interactive run after a yes.
C2_Witness ==
    /\ VersionOf(artifact) = 3
    /\ run.kind = "process"
    /\ run.outcome = "updated"
    /\ run.asked

\* C3: a run on the configuration the output file was written from (or was
\* found up to date with) reports no change and leaves the file as it is.
C3_SecondRunNoChange ==
    [][ (IsRun /\ run.kind = "process" /\ run.outcome \in InSync)
        => (artifact' = artifact
            /\ VersionOf(artifact') = VersionOf(artifact)
            /\ LastUpdateOf(artifact') = LastUpdateOf(artifact)
            /\ run'.outcome = "unchanged")
      ]_vars

\* C3's case: a second run, at a later time than the file's timestamp, after
\* a run that wrote or accepted the file.
C3_Witness ==
    /\ run.kind = "process"
    /\ run.again
    /\ run.outcome = "unchanged"
    /\ LastUpdateOf(artifact) # isoformat(now)

ResolutionErrors == {ImportSyntaxError, TemplateNotFound, KeyNotFound, MergeConflict}

\* C7: a run whose resolution fails (no '#', a missing file, a missing key, a
\* merge conflict) ends in the error exit and leaves the output file as it was:
\* absent if it was absent, the same text otherwise.
C7_FailureWritesNothing ==
    [][ (IsRun /\ ~resolve_device_config(fs).ok
               /\ resolve_device_config(fs).err \in ResolutionErrors)
        => (artifact' = artifact /\ run'.outcome = "error"
            /\ run'.err = resolve_device_config(fs).err)
      ]_vars

\* C7's case: a merge conflict met with an artifact in place.
C7_Witness ==
    /\ run.kind = "process"
    /\ run.outcome = "error"
    /\ run.err = MergeConflict
    /\ artifact # NoFile
    /\ VersionOf(artifact) >= 2

\* C9: an interactive run that finds a difference and is not answered y or yes
\* is cancelled without an error and leaves the output file as it was; an
\* interactive run raises the stored version only after a yes.
C9_DeclineIsNoOp ==
    [][ /\ (IsRun /\ run'.kind = "process" /\ ~run'.silent /\ ContentDiffers
                  /\ ~SaysYes(run'.response))
           => (artifact' = artifact /\ run'.outcome = "cancelled" /\ run'.err = ""
               /\ run'.asked)
        /\ (IsRun /\ run'.kind = "process" /\ ~run'.silent /\ artifact # NoFile
                  /\ VersionOf(artifact') > VersionOf(artifact))
           => (run'.asked /\ SaysYes(run'.response))
      ]_vars

\* C9's case: a declined overwrite of an existing artifact.
C9_Witness ==
    /\ run.kind = "process"
    /\ run.outcome = "cancelled"
    /\ run.response = <<"y", "e", "s", "s">>
    /\ ContentDiffers
    /\ VersionOf(artifact) >= 2

(***************************************************************************)
(* JsonCommentStripper. A text is a sequence of characters.                *)
(***************************************************************************)
\* str.split(sep): the pieces between the separators, from the piece `cur`
RECURSIVE SplitFrom(_, _, _, _)
SplitFrom(text, sep, i, cur) ==
    IF i > Len(text) THEN <<cur>>
    ELSE IF text[i] = sep THEN <<cur>> \o SplitFrom(text, sep, i + 1, <<>>)
    ELSE SplitFrom(text, sep, i + 1, Append(cur, text[i]))
Split(text, sep) == SplitFrom(text, sep, 1, <<>>)

\* sep.join(lines)
RECURSIVE Join(_, _)
Join(lines, sep) ==
    IF Len(lines) = 0 THEN <<>>
    ELSE IF Len(lines) = 1 THEN lines[1]
    ELSE lines[1] \o <<sep>> \o Join(Tail(lines), sep)

\* lines 100-119: the scan of one line from its i-th character; the place of
\* the comment found, 0 when there is none (comment_pos, counted from 1)
RECURSIVE ScanLine(_, _, _, _)
ScanLine(line, i, in_string, escaped) ==
    IF i > Len(line) THEN 0
    ELSE IF escaped THEN ScanLine(line, i + 1, in_string, FALSE)
    ELSE IF line[i] = "\\" THEN ScanLine(line, i + 1, in_string, TRUE)
    ELSE IF line[i] = "\"" THEN ScanLine(line, i + 1, ~in_string, FALSE)
    ELSE IF ~in_string /\ line[i] = "/" /\ i + 1 <= Len(line) /\ line[i + 1] = "/" THEN i
    ELSE ScanLine(line, i + 1, in_string, FALSE)

\* lines 121-124
StripLine(line) ==
    LET comment_pos == ScanLine(line, 1, FALSE, FALSE) IN
    IF comment_pos > 0 THEN RStrip(SubSeq(line, 1, comment_pos - 1)) ELSE line

\* strip_comments
strip_comments(text) ==
    LET lines == Split(text, "\n")
    IN  Join([i \in 1..Len(lines) |-> StripLine(lines[i])], "\n")

Chars == {"/", "\"", "\\", " ", "a", "\n"}
Texts == UNION {[1..n -> Chars] : n \in 0..MaxLen}
NotStripped == <<"unset">>

InitStrip ==
    /\ txt \in Texts
    /\ stripped = NotStripped
    /\ fs = (MasterPath :> ProcessMaster)
    /\ artifact = NoFile
    /\ now = 0
    /\ run = NoRun
    /\ call = NoCall
    /\ res = NoRes
    /\ old_obj = Num(0)
    /\ new_obj = Num(0)
    /\ report = NoReport

StripComments ==
    /\ stripped = NotStripped
    /\ stripped' = strip_comments(txt)
    /\ UNCHANGED <<fs, artifact, now, run, call, res, txt, old_obj, new_obj, report>>

NextStrip == StripComments

SpecStrip == InitStrip /\ [][NextStrip]_vars

(***************************************************************************)
(* Properties of strip_comments, under SpecStrip.                          *)
(***************************************************************************)
\* the character at p is escaped: the one before it is a backslash that is
\* not itself escaped
RECURSIVE EscapedAt(_, _)
EscapedAt(line, p) == p > 1 /\ line[p - 1] = "\\" /\ ~EscapedAt(line, p - 1)

\* the character at p lies inside a string literal: an odd number of
\* unescaped quotes precede it on its line
InStringAt(line, p) ==
    Cardinality({q \in 1..(p - 1) : line[q] = "\"" /\ ~EscapedAt(line, q)}) % 2 = 1

\* a "//" starts at p
SlashesAt(line, p) == p + 1 <= Len(line) /\ line[p] = "/" /\ line[p + 1] = "/"

\* a "//" outside a string literal starts at p
CommentAt(line, p) == SlashesAt(line, p) /\ ~InStringAt(line, p)

IsPrefix(s, line) == Len(s) <= Len(line) /\ SubSeq(line, 1, Len(s)) = s

\* what the claim says of one line and its output, apart from the removal of
\* every "//" outside a string literal: a prefix; the line itself unless a
\* "//" outside a string literal lies at or right after the cut, blanks
\* between; a "//" inside a string literal that no comment precedes is kept
LineStructure(line, out) ==
    /\ IsPrefix(out, line)
    /\ (out # line =>
           \E p \in 1..Len(line) :
               /\ CommentAt(line, p)
               /\ Len(out) < p
               /\ \A q \in (Len(out) + 1)..(p - 1) : IsSpace(line[q]))
    /\ \A p \in 1..Len(line) :
           (SlashesAt(line, p) /\ InStringAt(line, p)
              /\ \A q \in 1..(p - 1) : ~CommentAt(line, q))
           => Len(out) >= p + 1

\* C10: the output has as many lines as the input, each a prefix of its input
\* line, cut only at a "//" outside a string literal; a "//" inside a string
\* literal is kept and every "//" outside a string literal is removed with
\* the rest of its line.
C10_StripComments ==
    stripped # NotStripped =>
        LET ins == Split(txt, "\n")
            outs == Split(stripped, "\n")
        IN  /\ Len(outs) = Len(ins)
            /\ \A i \in 1..Len(ins) :
                   /\ LineStructure(ins[i], outs[i])
                   /\ \A p \in 1..Len(ins[i]) :
                          CommentAt(ins[i], p) => Len(outs[i]) < p

\* What the scan does remove: every "//" outside a string literal whose first
\* slash is not escaped by a backslash; the rest of C10 as stated.
StripCommentsUnescaped ==
    stripped # NotStripped =>
        LET ins == Split(txt, "\n")
            outs == Split(stripped, "\n")
        IN  /\ Len(outs) = Len(ins)
            /\ \A i \in 1..Len(ins) :
                   /\ IsPrefix(outs[i], ins[i])
                   /\ \A p \in 1..Len(ins[i]) :
                          (CommentAt(ins[i], p) /\ ~EscapedAt(ins[i], p))
                          => Len(outs[i]) < p

====
